---- MODULE Spec2Model ----
(***************************************************************************)
(* The k-DOP bounding volume hierarchy of quick_renderer (src/src/bvh.rs). *)
(* The tree is one record with the fields of BVHTree; every method of the  *)
(* Rust impl is an operator from a tree (and its arguments) to the tree it *)
(* leaves behind, and one action of the state machine.                     *)
(*                                                                         *)
(* Scalars (T = f32/f64) are fixed-point integers: One stands for 1.0,     *)
(* Milli for 0.001, DefaultEpsilon (below Milli) for T::default_epsilon()  *)
(* and TMax for T::max_value().                                            *)
(* Arena handles are arena positions (no node is ever removed, so every    *)
(* generation is 0); Unknown stands for BVHNodeIndex::unknown().           *)
(***************************************************************************)
EXTENDS Integers, Sequences, FiniteSets, TLC

\* ---------------------------------------------------------------- bounds
MaxSize == 4
MaxTreeType == 3
UsizeModulus == 65536
PartitionFuel == 12

\* ------------------------------------------------------ program constants
MAX_TREETYPE == 32
TMax == 1000000000
TMin == -TMax
DefaultEpsilon == 1
Milli == 2
One == 1000 * Milli
Unknown == -1
NoParent == -1
NoElem == -1
ElemBase == 10

Max2(a, b) == IF a > b THEN a ELSE b
Min2(a, b) == IF a < b THEN a ELSE b

bvhtree_kdop_axes ==
  << <<1, 0, 0>>, <<0, 1, 0>>, <<0, 0, 1>>,
     <<1, 1, 1>>, <<1, -1, 1>>, <<1, 1, -1>>, <<1, -1, -1>>,
     <<1, 1, 0>>, <<1, 0, 1>>, <<0, 1, 1>>,
     <<1, -1, 0>>, <<1, 0, -1>>, <<0, 1, -1>> >>

dot(co, ax) == co[1] * ax[1] + co[2] * ax[2] + co[3] * ax[3]

\* T arithmetic: a finite value added to T::max_value() / T::min_value() is
\* absorbed by rounding.
fadd(a, b) == IF a = TMax \/ a = TMin THEN a ELSE a + b
fsub(a, b) == IF a = TMax \/ a = TMin THEN a ELSE a - b

\* ------------------------------------------------------------- the tree
Panic(t) == [t EXCEPT !.status = "panic"]
Hang(t) == [t EXCEPT !.status = "hang"]

\* node_array.get(index).is_some()
arena_has(t, index) == index \in DOMAIN t.node_array

BVHNode_new == [children |-> <<>>, parent |-> NoParent, bv |-> <<>>,
                elem_index |-> NoElem, totnode |-> 0, main_axis |-> 0]

implicit_needed_branches_overflows(tree_type, leafs) == leafs + tree_type < 3

implicit_needed_branches(tree_type, leafs) ==
  Max2(1, (leafs + tree_type - 3) % UsizeModulus) \div (tree_type - 1)

get_largest_axis(bv) ==
  LET middle_point_x == bv[1] - bv[0]
      middle_point_y == bv[3] - bv[2]
      middle_point_z == bv[5] - bv[4]
  IN IF middle_point_x > middle_point_y
     THEN (IF middle_point_x > middle_point_z THEN 1 ELSE 5)
     ELSE (IF middle_point_y > middle_point_z THEN 3 ELSE 5)

\* The tree a panicking new() leaves behind: none. Its fields are empty.
NoTree ==
  [nodes |-> <<>>, node_array |-> <<>>, epsilon |-> 0, totleaf |-> 0,
   totbranch |-> 0, start_axis |-> 0, stop_axis |-> 0, axis |-> 0,
   tree_type |-> 0, status |-> "panic"]

axis_range(axis) ==
  IF axis = 26 THEN <<0, 13>>
  ELSE IF axis = 18 THEN <<7, 13>>
  ELSE IF axis = 14 THEN <<0, 7>>
  ELSE IF axis = 8 THEN <<0, 4>>
  ELSE IF axis = 6 THEN <<0, 3>>
  ELSE <<-1, -1>>

\* overflow_checks: the build traps arithmetic overflow (debug profile);
\* otherwise usize arithmetic wraps.
BVHTree_new(max_size, epsilon, tree_type, axis, overflow_checks) ==
  IF ~(2 <= tree_type /\ tree_type <= MAX_TREETYPE) THEN NoTree
  ELSE IF axis_range(axis)[1] < 0 THEN NoTree
  ELSE IF overflow_checks
          /\ (\/ implicit_needed_branches_overflows(tree_type, max_size)
              \/ max_size + implicit_needed_branches(tree_type, max_size) + tree_type
                   >= UsizeModulus)
       THEN NoTree
  ELSE
    LET numnodes == (max_size + implicit_needed_branches(tree_type, max_size) + tree_type)
                      % UsizeModulus
        node == [BVHNode_new EXCEPT
                   !.bv = [k \in 0..(axis - 1) |-> 0],
                   !.children = [k \in 0..(tree_type - 1) |-> Unknown]]
    IN [nodes |-> [i \in 0..(numnodes - 1) |-> Unknown],
        node_array |-> [i \in 0..(numnodes - 1) |-> node],
        epsilon |-> Max2(epsilon, DefaultEpsilon),
        totleaf |-> 0,
        totbranch |-> 0,
        start_axis |-> axis_range(axis)[1],
        stop_axis |-> axis_range(axis)[2],
        axis |-> axis,
        tree_type |-> tree_type,
        status |-> "ok"]

\* ------------------------------------------------- bounding volume math
\* Both stores of one axis_iter of min_max_init are in bounds.
bv_covers(bv, start_axis, stop_axis) ==
  \A a \in start_axis..(stop_axis - 1) : (2 * a) + 1 \in DOMAIN bv

is_active(k, start_axis, stop_axis) ==
  start_axis <= k \div 2 /\ k \div 2 < stop_axis

\* min_max_init up to the first store out of bounds.
min_max_init(bv, start_axis, stop_axis) ==
  [k \in DOMAIN bv |->
     IF is_active(k, start_axis, stop_axis)
     THEN (IF k % 2 = 0 THEN TMax ELSE TMin)
     ELSE bv[k]]

hull_add_point(bv, start_axis, stop_axis, co) ==
  [k \in DOMAIN bv |->
     IF is_active(k, start_axis, stop_axis)
     THEN LET new_min_max == dot(co, bvhtree_kdop_axes[(k \div 2) + 1])
          IN IF k % 2 = 0
             THEN (IF new_min_max < bv[k] THEN new_min_max ELSE bv[k])
             ELSE (IF new_min_max > bv[k] THEN new_min_max ELSE bv[k])
     ELSE bv[k]]

RECURSIVE hull_add_points(_, _, _, _)
hull_add_points(bv, start_axis, stop_axis, co_many) ==
  IF co_many = <<>> THEN bv
  ELSE hull_add_points(hull_add_point(bv, start_axis, stop_axis, Head(co_many)),
                       start_axis, stop_axis, Tail(co_many))

\* create_kdop_hull panics in min_max_init (index out of bounds) or at its
\* assert_eq!(bv.len(), stop_axis * 2).
create_kdop_hull_panics(bv, start_axis, stop_axis, moving) ==
  \/ ~moving /\ ~bv_covers(bv, start_axis, stop_axis)
  \/ Cardinality(DOMAIN bv) # stop_axis * 2

create_kdop_hull(bv, start_axis, stop_axis, co_many, moving) ==
  hull_add_points(IF moving THEN bv ELSE min_max_init(bv, start_axis, stop_axis),
                  start_axis, stop_axis, co_many)

\* inflate that widens the maxima only
inflate_max_only(bv, start_axis, stop_axis, epsilon) ==
  [k \in DOMAIN bv |->
     IF is_active(k, start_axis, stop_axis) /\ k % 2 = 1
     THEN fadd(bv[k], epsilon)
     ELSE bv[k]]

\* "Inflate bv by epsilon"
inflate(bv, start_axis, stop_axis, epsilon) ==
  [k \in DOMAIN bv |->
     IF is_active(k, start_axis, stop_axis)
     THEN (IF k % 2 = 0 THEN fsub(bv[k], epsilon) ELSE fadd(bv[k], epsilon))
     ELSE bv[k]]

\* overlap_test with only the first of its two comparisons
overlap_test_one_sided(bv1, bv2, start_axis, stop_axis) ==
  \A a \in start_axis..(stop_axis - 1) : ~(bv1[2 * a] > bv2[(2 * a) + 1])

overlap_test(bv1, bv2, start_axis, stop_axis) ==
  \A a \in start_axis..(stop_axis - 1) :
     ~(bv1[2 * a] > bv2[(2 * a) + 1] \/ bv2[2 * a] > bv1[(2 * a) + 1])

\* ---------------------------------------------------------------- insert
insert(t, index, co_many) ==
  IF t.totbranch # 0 THEN Panic(t)
  ELSE IF t.totleaf \notin DOMAIN t.node_array \/ t.totleaf \notin DOMAIN t.nodes THEN Panic(t)
  ELSE
    LET pos == t.totleaf
        t1 == [t EXCEPT !.nodes[pos] = pos, !.totleaf = pos + 1]
        bv0 == t.node_array[pos].bv
    IN IF create_kdop_hull_panics(bv0, t.start_axis, t.stop_axis, FALSE)
       THEN Panic([t1 EXCEPT !.node_array[pos].bv =
                     min_max_init(bv0, t.start_axis, t.stop_axis)])
       ELSE [t1 EXCEPT !.node_array[pos] =
               [@ EXCEPT !.bv = inflate(create_kdop_hull(bv0, t.start_axis, t.stop_axis,
                                                         co_many, FALSE),
                                        t.start_axis, t.stop_axis, t.epsilon),
                         !.elem_index = index]]

\* ------------------------------------------------------------- balance
\* node_array.get(self.nodes[i].0).unwrap() succeeds
valid_slot(t, i) == i \in DOMAIN t.nodes /\ arena_has(t, t.nodes[i])

\* key that reads the minimum of the axis instead of bv[axis]
key_of_min(t, i, axis) == t.node_array[t.nodes[i]].bv[axis - 1]

key(t, i, axis) == t.node_array[t.nodes[i]].bv[axis]

\* bv_join that joins the minima only
bv_join_min_only(bv, node_bv, start_axis, stop_axis) ==
  [k \in DOMAIN bv |->
     IF is_active(k, start_axis, stop_axis) /\ k % 2 = 0
     THEN (IF node_bv[k] < bv[k] THEN node_bv[k] ELSE bv[k])
     ELSE bv[k]]

bv_join(bv, node_bv, start_axis, stop_axis) ==
  [k \in DOMAIN bv |->
     IF is_active(k, start_axis, stop_axis)
     THEN (IF k % 2 = 0
           THEN (IF node_bv[k] < bv[k] THEN node_bv[k] ELSE bv[k])
           ELSE (IF node_bv[k] > bv[k] THEN node_bv[k] ELSE bv[k]))
     ELSE bv[k]]

RECURSIVE refit_kdop_hull_loop(_, _, _, _)
refit_kdop_hull_loop(t, node_index, j, end) ==
  IF t.status # "ok" \/ j >= end THEN t
  ELSE IF ~valid_slot(t, j) \/ t.nodes[j] = node_index THEN Panic(t)
  ELSE refit_kdop_hull_loop(
         [t EXCEPT !.node_array[node_index].bv =
            bv_join(@, t.node_array[t.nodes[j]].bv, t.start_axis, t.stop_axis)],
         node_index, j + 1, end)

\* refit_kdop_hull that leaves out the last leaf of the range
refit_kdop_hull_short(t, node_index, start, end) ==
  IF ~arena_has(t, node_index) THEN Panic(t)
  ELSE refit_kdop_hull_loop(
         [t EXCEPT !.node_array[node_index].bv =
            min_max_init(@, t.start_axis, t.stop_axis)],
         node_index, start, Max2(start + 1, end - 1))

refit_kdop_hull(t, node_index, start, end) ==
  IF ~arena_has(t, node_index) THEN Panic(t)
  ELSE IF ~bv_covers(t.node_array[node_index].bv, t.start_axis, t.stop_axis) THEN Panic(t)
  ELSE refit_kdop_hull_loop(
         [t EXCEPT !.node_array[node_index].bv =
            min_max_init(@, t.start_axis, t.stop_axis)],
         node_index, start, end)

\* leafs_per_child[0]: the smallest tree_type^n >= totleafs
RECURSIVE leafs_per_child_0(_, _, _)
leafs_per_child_0(v, totleafs, tree_type) ==
  IF v < totleafs THEN leafs_per_child_0(v * tree_type, totleafs, tree_type) ELSE v

RECURSIVE helper_levels(_, _, _, _)
helper_levels(lpc, bol, depth, tree_type) ==
  IF depth < 32 /\ lpc[depth - 1] # 0
  THEN helper_levels([lpc EXCEPT ![depth] = lpc[depth - 1] \div tree_type],
                     [bol EXCEPT ![depth] = bol[depth - 1] * tree_type],
                     depth + 1, tree_type)
  ELSE [leafs_per_child |-> lpc, branches_on_level |-> bol]

\* remain_leafs is -1 when totleafs - leafs_per_child[1] underflows.
build_implicit_helper(t) ==
  LET totleafs == t.totleaf
      tree_type == t.tree_type
      lv == helper_levels(
              [d \in 0..31 |-> IF d = 0 THEN leafs_per_child_0(1, totleafs, tree_type) ELSE 0],
              [d \in 0..31 |-> IF d = 0 THEN 1 ELSE 0], 1, tree_type)
      remain == totleafs - lv.leafs_per_child[1]
      nnodes == (remain + tree_type - 2) \div (tree_type - 1)
  IN [totleafs |-> totleafs,
      leafs_per_child |-> lv.leafs_per_child,
      branches_on_level |-> lv.branches_on_level,
      remain_leafs |-> IF remain < 0 THEN -1 ELSE remain + nnodes]

\* -1 stands for a panic (index out of bounds, usize underflow).
implicit_leafs_index(h, depth, child_index) ==
  IF depth < 1 \/ depth > 31 \/ h.remain_leafs < 0 THEN -1
  ELSE
    LET min_leaf_index == child_index * h.leafs_per_child[depth - 1]
    IN IF min_leaf_index <= h.remain_leafs THEN min_leaf_index
       ELSE IF h.leafs_per_child[depth] # 0
       THEN (IF h.branches_on_level[depth - 1] < child_index THEN -1
             ELSE LET d == (h.branches_on_level[depth - 1] - child_index)
                             * h.leafs_per_child[depth]
                  IN IF h.totleafs < d THEN -1 ELSE h.totleafs - d)
       ELSE h.remain_leafs

swap(f, i, j) == [f EXCEPT ![i] = f[j], ![j] = f[i]]

\* the inner while of bvh_insertion_sort; returns the nodes list and j, or j = -1
RECURSIVE bvh_insertion_sort_shift(_, _, _, _, _)
bvh_insertion_sort_shift(t, j, lo, tkey, axis) ==
  IF j = lo THEN [t |-> t, j |-> j]
  ELSE IF ~valid_slot(t, j - 1) THEN [t |-> Panic(t), j |-> -1]
  ELSE IF tkey < key(t, j - 1, axis)
       THEN bvh_insertion_sort_shift([t EXCEPT !.nodes[j] = t.nodes[j - 1]],
                                     j - 1, lo, tkey, axis)
       ELSE [t |-> t, j |-> j]

RECURSIVE bvh_insertion_sort_from(_, _, _, _, _)
bvh_insertion_sort_from(t, i, lo, hi, axis) ==
  IF t.status # "ok" \/ i >= hi THEN t
  ELSE IF ~valid_slot(t, i) THEN Panic(t)
  ELSE LET node_t_index == t.nodes[i]
           r == bvh_insertion_sort_shift(t, i, lo, t.node_array[node_t_index].bv[axis], axis)
       IN IF r.j < 0 THEN r.t
          ELSE bvh_insertion_sort_from([r.t EXCEPT !.nodes[r.j] = node_t_index],
                                       i + 1, lo, hi, axis)

bvh_insertion_sort(t, lo, hi, axis) == bvh_insertion_sort_from(t, lo, lo, hi, axis)

\* while node_a_i.bv[axis] < node_x.bv[axis] { i += 1 }; -1 on a panic
RECURSIVE bvh_partition_up(_, _, _, _)
bvh_partition_up(t, i, x, axis) ==
  IF ~valid_slot(t, i) THEN -1
  ELSE IF key(t, i, axis) < x THEN bvh_partition_up(t, i + 1, x, axis)
  ELSE i

\* j -= 1; while node_x.bv[axis] < node_a_j.bv[axis] { j -= 1 }; -1 on a panic
RECURSIVE bvh_partition_down(_, _, _, _)
bvh_partition_down(t, j, x, axis) ==
  IF j < 1 THEN -1
  ELSE IF ~valid_slot(t, j - 1) THEN -1
  ELSE IF x < key(t, j - 1, axis) THEN bvh_partition_down(t, j - 1, x, axis)
  ELSE j - 1

RECURSIVE bvh_partition_loop(_, _, _, _, _)
bvh_partition_loop(t, i0, j0, x, axis) ==
  LET i == bvh_partition_up(t, i0, x, axis)
  IN IF i < 0 THEN [t |-> Panic(t), cut |-> 0]
     ELSE LET j == bvh_partition_down(t, j0, x, axis)
          IN IF j < 0 THEN [t |-> Panic(t), cut |-> 0]
             ELSE IF i >= j THEN [t |-> t, cut |-> i]
             ELSE bvh_partition_loop([t EXCEPT !.nodes = swap(@, i, j)],
                                     i + 1, j, x, axis)

bvh_partition(t, lo, hi, node_x_index, axis) ==
  IF ~arena_has(t, node_x_index) THEN [t |-> Panic(t), cut |-> 0]
  ELSE bvh_partition_loop(t, lo, hi, t.node_array[node_x_index].bv[axis], axis)

\* bvh_median_of_3 returns Unknown when one of the three reads panics.
\* bvh_median_of_3 that always picks the first element as the pivot
bvh_median_of_3_first(t, lo, mid, hi, axis) ==
  IF ~(valid_slot(t, lo) /\ valid_slot(t, mid) /\ valid_slot(t, hi)) THEN Unknown
  ELSE t.nodes[lo]

bvh_median_of_3(t, lo, mid, hi, axis) ==
  IF ~(valid_slot(t, lo) /\ valid_slot(t, mid) /\ valid_slot(t, hi)) THEN Unknown
  ELSE
    LET node_lo == key(t, lo, axis)
        node_mid == key(t, mid, axis)
        node_hi == key(t, hi, axis)
    IN IF node_mid < node_lo
       THEN (IF node_hi < node_mid THEN t.nodes[mid]
             ELSE IF node_hi < node_lo THEN t.nodes[hi]
             ELSE t.nodes[lo])
       ELSE IF node_hi < node_mid
       THEN (IF node_hi < node_lo THEN t.nodes[lo] ELSE t.nodes[hi])
       ELSE t.nodes[mid]

RECURSIVE partition_nth_element_loop(_, _, _, _, _, _)
partition_nth_element_loop(t, begin, end, n, axis, fuel) ==
  IF t.status # "ok" THEN t
  ELSE IF end < begin THEN Panic(t)
  ELSE IF end - begin > 3
  THEN IF fuel = 0 THEN Hang(t)
       ELSE LET p == bvh_partition(
                       t, begin, end,
                       bvh_median_of_3(t, begin, (begin + end) \div 2, end - 1, axis),
                       axis)
            IN IF p.t.status # "ok" THEN p.t
               ELSE IF p.cut <= n
               THEN partition_nth_element_loop(p.t, p.cut, end, n, axis, fuel - 1)
               ELSE partition_nth_element_loop(p.t, begin, p.cut, n, axis, fuel - 1)
  ELSE bvh_insertion_sort(t, begin, end, axis)

\* partition_nth_element that sorts the first three elements of the range only
partition_nth_element_first_3(t, begin, end, n, axis) ==
  bvh_insertion_sort(t, begin, Min2(end, begin + 3), axis)

partition_nth_element(t, begin, end, n, axis) ==
  partition_nth_element_loop(t, begin, end, n, axis, PartitionFuel)

RECURSIVE split_leafs_from(_, _, _, _, _)
split_leafs_from(t, nth, i, partitions, split_axis) ==
  IF t.status # "ok" \/ i >= partitions - 1 THEN t
  ELSE IF nth[i] >= nth[partitions] THEN t
  ELSE split_leafs_from(
         partition_nth_element(t, nth[i], nth[partitions], nth[i + 1], split_axis),
         nth, i + 1, partitions, split_axis)

split_leafs(t, nth, partitions, split_axis) ==
  split_leafs_from(t, nth, 0, partitions, split_axis)

\* data: [brances_array_start, tree_offset, data (the helper), depth, i, first_of_next_level]
child_index_of(t, data, j, k) == (j * t.tree_type) + data.tree_offset + k

\* nth_positions[0..tree_type]; an entry of -1 stands for a panic
nth_positions_of(t, data, j, parent_leafs_begin, parent_leafs_end) ==
  [k \in 0..t.tree_type |->
     IF k = 0 THEN parent_leafs_begin
     ELSE IF k = t.tree_type THEN parent_leafs_end
     ELSE LET child_index == child_index_of(t, data, j, k)
          IN IF child_index < data.first_of_next_level THEN -1
             ELSE implicit_leafs_index(data.data, data.depth + 1,
                                       child_index - data.first_of_next_level)]

\* "setup children and totnode counters": the loop over k, from k with totnode
\* children already linked
RECURSIVE setup_children(_, _, _, _, _, _)
setup_children(t, data, j, parent_index, k, totnode) ==
  IF t.status # "ok" THEN t
  ELSE IF k >= t.tree_type
  THEN [t EXCEPT !.node_array[parent_index].totnode = totnode]
  ELSE
    LET child_index == child_index_of(t, data, j, k)
        child_level_index == child_index - data.first_of_next_level
        child_leafs_begin == implicit_leafs_index(data.data, data.depth + 1, child_level_index)
        child_leafs_end == implicit_leafs_index(data.data, data.depth + 1,
                                                child_level_index + 1)
    IN IF child_level_index < 0 \/ child_leafs_begin < 0 \/ child_leafs_end < 0
          \/ child_leafs_end < child_leafs_begin
       THEN Panic(t)
       ELSE IF child_leafs_end - child_leafs_begin > 1
       THEN LET child == data.brances_array_start + child_index
            IN IF ~arena_has(t, child) THEN Panic(t)
               ELSE setup_children(
                      [t EXCEPT !.node_array[parent_index].children[k] = child,
                                !.node_array[child].parent = parent_index],
                      data, j, parent_index, k + 1, totnode + 1)
       ELSE IF child_leafs_end - child_leafs_begin = 1
       THEN IF ~valid_slot(t, child_leafs_begin) THEN Panic(t)
            ELSE LET child == t.nodes[child_leafs_begin]
                 IN setup_children(
                      [t EXCEPT !.node_array[parent_index].children[k] = child,
                                !.node_array[child].parent = parent_index],
                      data, j, parent_index, k + 1, totnode + 1)
       ELSE [t EXCEPT !.node_array[parent_index].totnode = totnode]

non_recursive_bvh_div_nodes_task_cb(t, data, j) ==
  LET parent_level_index == j - data.i
      parent_leafs_begin == implicit_leafs_index(data.data, data.depth, parent_level_index)
      parent_leafs_end == implicit_leafs_index(data.data, data.depth, parent_level_index + 1)
      parent_index == data.brances_array_start + j
  IN IF parent_leafs_begin < 0 \/ parent_leafs_end < 0 \/ ~arena_has(t, parent_index)
     THEN Panic(t)
     ELSE
       LET t1 == refit_kdop_hull(t, parent_index, parent_leafs_begin, parent_leafs_end)
       IN IF t1.status # "ok" THEN t1
          ELSE
            LET split_axis == get_largest_axis(t1.node_array[parent_index].bv)
                t2 == [t1 EXCEPT !.node_array[parent_index].main_axis = split_axis \div 2]
                nth_positions == nth_positions_of(t, data, j, parent_leafs_begin,
                                                  parent_leafs_end)
            IN IF \E k \in DOMAIN nth_positions : nth_positions[k] < 0 THEN Panic(t2)
               ELSE setup_children(split_leafs(t2, nth_positions, t.tree_type, split_axis),
                                   data, j, parent_index, 0, 0)

RECURSIVE div_nodes_tasks(_, _, _, _)
div_nodes_tasks(t, data, i_task, i_stop) ==
  IF t.status # "ok" \/ i_task >= i_stop THEN t
  ELSE div_nodes_tasks(non_recursive_bvh_div_nodes_task_cb(t, data, i_task),
                       data, i_task + 1, i_stop)

\* "loop tree levels"
RECURSIVE div_nodes_levels(_, _, _, _, _)
div_nodes_levels(t, data, i, depth, num_branches) ==
  IF t.status # "ok" \/ ~(i <= num_branches) THEN t
  ELSE
    LET first_of_next_level == (i * t.tree_type) + data.tree_offset
        i_stop == Min2(first_of_next_level, num_branches + 1)
        cb_data == [data EXCEPT !.first_of_next_level = first_of_next_level,
                                !.i = i, !.depth = depth]
    IN div_nodes_levels(div_nodes_tasks(t, cb_data, i, i_stop),
                        cb_data, first_of_next_level, depth + 1, num_branches)

non_recursive_bvh_div_nodes(t, branches_array_start, num_leafs) ==
  LET tree_offset == 2 - t.tree_type
      num_branches == implicit_needed_branches(t.tree_type, num_leafs)
  IN IF num_leafs = 1
     THEN
       LET root_index == branches_array_start + 1
       IN IF ~arena_has(t, root_index) THEN Panic(t)
          ELSE
            LET t1 == refit_kdop_hull(t, root_index, 0, num_leafs)
            IN IF t1.status # "ok" THEN t1
               ELSE IF 1 \notin DOMAIN t1.nodes \/ ~arena_has(t1, t1.nodes[0]) THEN Panic(t1)
               ELSE [t1 EXCEPT
                       !.node_array[root_index].main_axis =
                          get_largest_axis(t1.node_array[root_index].bv) \div 2,
                       !.node_array[root_index].totnode = 1,
                       !.node_array[root_index].children[0] = t1.nodes[0],
                       !.node_array[t1.nodes[0]].parent = root_index,
                       !.nodes[1] = root_index]
     ELSE
       LET data == build_implicit_helper(t)
       IN IF data.remain_leafs < 0 THEN Panic(t)
          ELSE div_nodes_levels(
                 t,
                 [brances_array_start |-> branches_array_start, tree_offset |-> tree_offset,
                  data |-> data, depth |-> 0, i |-> 0, first_of_next_level |-> 0],
                 1, 1, num_branches)

\* "current code expects the branches to be linked to the nodes array"
RECURSIVE link_branches(_, _)
link_branches(t, i) ==
  IF t.status # "ok" \/ i >= t.totbranch THEN t
  ELSE IF ~arena_has(t, t.totleaf + i) \/ (t.totleaf + i) \notin DOMAIN t.nodes THEN Panic(t)
  ELSE link_branches([t EXCEPT !.nodes[t.totleaf + i] = t.totleaf + i], i + 1)

\* balance with totbranch computed for one leaf less
balance_short_count(t) ==
  IF t.totbranch # 0 THEN Panic(t)
  ELSE IF t.totleaf = 0 THEN t
  ELSE
    LET t1 == non_recursive_bvh_div_nodes(t, t.totleaf - 1, t.totleaf)
    IN IF t1.status # "ok" THEN t1
       ELSE link_branches(
              [t1 EXCEPT !.totbranch =
                 implicit_needed_branches(t.tree_type, t.totleaf - 1)], 0)

\* balance with the branches built one arena position further up
balance_shifted(t) ==
  IF t.totbranch # 0 THEN Panic(t)
  ELSE IF t.totleaf = 0 THEN t
  ELSE
    LET t1 == non_recursive_bvh_div_nodes(t, t.totleaf, t.totleaf)
    IN IF t1.status # "ok" THEN t1
       ELSE link_branches(
              [t1 EXCEPT !.totbranch = implicit_needed_branches(t.tree_type, t.totleaf)], 0)

balance(t) ==
  IF t.totbranch # 0 THEN Panic(t)
  ELSE IF t.totleaf = 0 THEN t
  ELSE
    LET t1 == non_recursive_bvh_div_nodes(t, t.totleaf - 1, t.totleaf)
    IN IF t1.status # "ok" THEN t1
       ELSE link_branches(
              [t1 EXCEPT !.totbranch = implicit_needed_branches(t.tree_type, t.totleaf)], 0)

\* ------------------------------------------------- update_node / update_tree
\* update_node_result without the is_empty() test of co_moving_many
update_node_result_no_empty(t, node_index, co_many, co_moving_many) ==
  IF node_index > t.totleaf THEN "IndexOutOfRange"
  ELSE IF Len(co_many) # Len(co_moving_many) THEN "DifferentNumPoints"
  ELSE "Ok"

\* the Result<(), BVHError> of update_node (a panic is in the tree's status)
update_node_result(t, node_index, co_many, co_moving_many) ==
  IF node_index > t.totleaf THEN "IndexOutOfRange"
  ELSE IF co_moving_many # <<>> /\ Len(co_many) # Len(co_moving_many)
  THEN "DifferentNumPoints"
  ELSE "Ok"

\* update_node that finds the leaf through the nodes list
update_node_by_nodes_list(t, node_index, co_many, co_moving_many) ==
  IF update_node_result(t, node_index, co_many, co_moving_many) # "Ok" THEN t
  ELSE IF ~valid_slot(t, node_index) THEN Panic(t)
  ELSE [t EXCEPT !.node_array[t.nodes[node_index]].bv =
          inflate(create_kdop_hull(@, t.start_axis, t.stop_axis, co_many, FALSE),
                  t.start_axis, t.stop_axis, t.epsilon)]

update_node(t, node_index, co_many, co_moving_many) ==
  IF update_node_result(t, node_index, co_many, co_moving_many) # "Ok" THEN t
  ELSE IF ~arena_has(t, node_index) THEN Panic(t)
  ELSE
    LET bv0 == t.node_array[node_index].bv
    IN IF create_kdop_hull_panics(bv0, t.start_axis, t.stop_axis, FALSE)
       THEN Panic([t EXCEPT !.node_array[node_index].bv =
                     min_max_init(bv0, t.start_axis, t.stop_axis)])
       ELSE
         LET bv1 == create_kdop_hull(bv0, t.start_axis, t.stop_axis, co_many, FALSE)
             bv2 == IF co_moving_many # <<>>
                    THEN create_kdop_hull(bv1, t.start_axis, t.stop_axis, co_moving_many, TRUE)
                    ELSE bv1
         IN [t EXCEPT !.node_array[node_index].bv =
               inflate(bv2, t.start_axis, t.stop_axis, t.epsilon)]

\* the loop over the children of node_join, up to the first absent child
RECURSIVE node_join_from(_, _, _)
node_join_from(t, node_index, i) ==
  IF i >= t.tree_type THEN t
  ELSE LET child_index == t.node_array[node_index].children[i]
       IN IF child_index = node_index THEN Panic(t)
          ELSE IF arena_has(t, child_index)
          THEN node_join_from(
                 [t EXCEPT !.node_array[node_index].bv =
                    bv_join(@, t.node_array[child_index].bv, t.start_axis, t.stop_axis)],
                 node_index, i + 1)
          ELSE t

node_join(t, nodes_index) ==
  IF nodes_index \notin DOMAIN t.nodes THEN Panic(t)
  ELSE LET node_index == t.nodes[nodes_index]
       IN IF ~arena_has(t, node_index) THEN Panic(t)
          ELSE IF ~bv_covers(t.node_array[node_index].bv, t.start_axis, t.stop_axis)
          THEN Panic(t)
          ELSE node_join_from(
                 [t EXCEPT !.node_array[node_index].bv =
                    min_max_init(@, t.start_axis, t.stop_axis)],
                 node_index, 0)

RECURSIVE update_tree_from(_, _, _)
update_tree_from(t, index, root_start) ==
  IF t.status # "ok" \/ ~(index >= root_start) THEN t
  ELSE update_tree_from(node_join(t, index), index - 1, root_start)

update_tree(t) ==
  IF t.totleaf = 0 THEN t
  ELSE update_tree_from(t, t.totleaf + t.totbranch - 1, t.totleaf)

\* ------------------------------------------------------------- ray cast
\* what a query hands back next to None / Some: the element, the point, the
\* distance (squared for find_nearest) and the pairs of overlap
NoFound == [elem_index |-> NoElem, co |-> <<>>, dist |-> 0, pairs |-> <<>>]

PosInf == TMax + 1
NegInf == -PosInf

abs(a) == IF a < 0 THEN -a ELSE a

\* T multiplication: a product beyond T::max_value() is an infinity
fsat(a) == IF a > TMax THEN PosInf ELSE IF a < -TMax THEN NegInf ELSE a

fmul(a, b) ==
  IF b = TMax
  THEN (IF a > One THEN PosInf ELSE IF a < -One THEN NegInf ELSE a * (TMax \div One))
  ELSE fsat(((a \div One) * b) + (((a % One) * b) \div One))

\* RayCastData::new, for the axis i in 0..2 (the other entries stay 0)
ray_dot_axis(dir, i) ==
  IF i > 2 THEN 0
  ELSE LET d == dot(dir, bvhtree_kdop_axes[i + 1])
       IN IF abs(d) < DefaultEpsilon THEN 0 ELSE d

idot_axis(dir, i) ==
  LET d == ray_dot_axis(dir, i)
  IN IF d = 0 THEN TMax
     ELSE IF d > 0 THEN (One * One) \div d
     ELSE -((One * One) \div (-d))

ray_index(dir, k) ==
  LET i == k \div 2
      first == IF idot_axis(dir, i) < 0 THEN 1 ELSE 0
  IN IF k % 2 = 0 THEN first + (2 * i) ELSE (1 - first) + (2 * i)

ray_hit(bv, co, dir, dist) ==
  LET t(k) == fmul(fsub(bv[ray_index(dir, k)], co[(k \div 2) + 1]), idot_axis(dir, k \div 2))
      t1x == t(0)
      t2x == t(1)
      t1y == t(2)
      t2y == t(3)
      t1z == t(4)
      t2z == t(5)
  IN IF \/ (t1x > t2y \/ t2x < t1y \/ t1x > t2z \/ t2x < t1z \/ t1y > t2z \/ t2y < t1z)
        \/ (t2x < 0 \/ t2y < 0 \/ t2z < 0)
        \/ (t1x > dist \/ t1y > dist \/ t1z > dist)
     THEN [hit |-> FALSE, dist |-> 0]
     ELSE [hit |-> TRUE, dist |-> Max2(Max2(t1x, t1y), t1z)]

\* the callbacks of ray_cast: "miss" returns None for every element, "by_elem"
\* returns Some hit whose dist grows with the element, from 1.0
ray_callback(callback, elem_index, co) ==
  IF callback = "miss" THEN [some |-> FALSE, elem_index |-> NoElem, co |-> co, dist |-> 0]
  ELSE [some |-> TRUE, elem_index |-> elem_index, co |-> co,
        dist |-> One * (1 + (elem_index % ElemBase))]

ray_point(co, dir, dist) ==
  <<fadd(co[1], fmul(dist, dir[1])), fadd(co[2], fmul(dist, dir[2])),
    fadd(co[3], fmul(dist, dir[3]))>>

RECURSIVE ray_cast_traverse(_, _, _, _, _, _)
RECURSIVE ray_cast_children(_, _, _, _, _, _, _)
ray_cast_traverse(t, node_index, co, dir, callback, r_hit_data) ==
  IF r_hit_data.status # "ok" THEN r_hit_data
  ELSE IF ~arena_has(t, node_index) THEN [r_hit_data EXCEPT !.status = "panic"]
  ELSE
    LET node == t.node_array[node_index]
        h == ray_hit(node.bv, co, dir, r_hit_data.dist)
    IN IF ~h.hit \/ h.dist >= r_hit_data.dist THEN r_hit_data
       ELSE IF node.totnode = 0
       THEN IF node.elem_index = NoElem THEN [r_hit_data EXCEPT !.status = "panic"]
            ELSE IF callback # "none"
            THEN LET hit_data == ray_callback(callback, node.elem_index, co)
                 IN IF hit_data.some /\ hit_data.dist < r_hit_data.dist
                    THEN [r_hit_data EXCEPT !.elem_index = hit_data.elem_index,
                                            !.co = hit_data.co,
                                            !.dist = hit_data.dist]
                    ELSE r_hit_data
            ELSE [r_hit_data EXCEPT !.elem_index = node.elem_index,
                                    !.co = ray_point(co, dir, h.dist),
                                    !.dist = h.dist]
       ELSE ray_cast_children(t, node_index, co, dir, callback, r_hit_data, 0)

\* the loop over the children, front to back along the main axis
ray_cast_children(t, node_index, co, dir, callback, r_hit_data, i) ==
  LET node == t.node_array[node_index]
      slot == IF ray_dot_axis(dir, node.main_axis) > 0 THEN i ELSE node.totnode - 1 - i
  IN IF i >= node.totnode \/ r_hit_data.status # "ok" THEN r_hit_data
     ELSE IF slot \notin DOMAIN node.children THEN [r_hit_data EXCEPT !.status = "panic"]
     ELSE ray_cast_children(t, node_index, co, dir, callback,
            ray_cast_traverse(t, node.children[slot], co, dir, callback, r_hit_data),
            i + 1)

\* callback = "none": ray_cast_no_callback
ray_cast_optional_callback(t, co, dir, callback) ==
  IF t.totleaf = 0 THEN [result |-> "None", found |-> NoFound]
  ELSE IF t.totleaf \notin DOMAIN t.nodes THEN [result |-> "panic", found |-> NoFound]
  ELSE
    LET hit_data == ray_cast_traverse(t, t.nodes[t.totleaf], co, dir, callback,
                      [elem_index |-> NoElem, co |-> <<>>, dist |-> TMax, status |-> "ok"])
    IN IF hit_data.status # "ok" THEN [result |-> "panic", found |-> NoFound]
       ELSE IF hit_data.elem_index # NoElem
       THEN [result |-> "Some",
             found |-> [NoFound EXCEPT !.elem_index = hit_data.elem_index,
                                       !.co = hit_data.co, !.dist = hit_data.dist]]
       ELSE [result |-> "None", found |-> NoFound]

\* --------------------------------------------------------- find_nearest
cal_nearest_point_squared(bv, proj) ==
  [i \in 1..3 |->
     LET val == IF bv[(i - 1) * 2] > proj[i] THEN bv[(i - 1) * 2] ELSE proj[i]
     IN IF bv[((i - 1) * 2) + 1] < val THEN bv[((i - 1) * 2) + 1] ELSE val]

\* squares beyond the range of T are an infinity, 2 * TMax
fsq(d) == IF abs(d) > 12 * One THEN 2 * TMax ELSE d * d

fsq_add(a, b) == IF a >= (2 * TMax) - b THEN 2 * TMax ELSE a + b

distance2(a, b) ==
  fsq_add(fsq_add(fsq(a[1] - b[1]), fsq(a[2] - b[2])), fsq(a[3] - b[3]))

\* proj of find_nearest: the active axes only, 0 elsewhere
find_nearest_proj(t, co) ==
  [a \in 0..12 |->
     IF t.start_axis <= a /\ a < t.stop_axis THEN dot(co, bvhtree_kdop_axes[a + 1]) ELSE 0]

RECURSIVE find_nearest_dfs(_, _, _, _, _, _)
RECURSIVE find_nearest_children(_, _, _, _, _, _, _, _)
\* callback "never": the callback leaves the nearest data as it is
find_nearest_dfs(t, node_index, co, proj, callback, r_nearest_data) ==
  IF r_nearest_data.status # "ok" THEN r_nearest_data
  ELSE IF ~arena_has(t, node_index) THEN [r_nearest_data EXCEPT !.status = "panic"]
  ELSE
    LET node == t.node_array[node_index]
        proj_v3 == <<proj[0], proj[1], proj[2]>>
    IN IF node.totnode = 0
       THEN IF callback # "none"
            THEN (IF node.elem_index = NoElem
                  THEN [r_nearest_data EXCEPT !.status = "panic"]
                  ELSE r_nearest_data)
            ELSE LET nearest == cal_nearest_point_squared(node.bv, proj_v3)
                 IN [r_nearest_data EXCEPT !.elem_index = node.elem_index,
                                           !.co = nearest,
                                           !.dist = distance2(proj_v3, nearest)]
       ELSE IF ~arena_has(t, node.children[0])
       THEN [r_nearest_data EXCEPT !.status = "panic"]
       ELSE find_nearest_children(t, node_index, co, proj, callback, r_nearest_data, 0,
              proj[node.main_axis] <=
                t.node_array[node.children[0]].bv[(node.main_axis * 2) + 1])

find_nearest_children(t, node_index, co, proj, callback, r_nearest_data, i, forward) ==
  LET node == t.node_array[node_index]
      slot == IF forward THEN i ELSE node.totnode - i - 1
      proj_v3 == <<proj[0], proj[1], proj[2]>>
  IN IF i >= node.totnode \/ r_nearest_data.status # "ok" THEN r_nearest_data
     ELSE IF slot \notin DOMAIN node.children \/ ~arena_has(t, node.children[slot])
     THEN [r_nearest_data EXCEPT !.status = "panic"]
     ELSE
       LET node_child == t.node_array[node.children[slot]]
           nearest == cal_nearest_point_squared(node_child.bv, proj_v3)
           node_child_dist_sq == distance2(proj_v3, nearest)
       IN find_nearest_children(t, node_index, co, proj, callback,
            IF node_child_dist_sq >= r_nearest_data.dist
            THEN r_nearest_data
            ELSE find_nearest_dfs(t, node.children[slot], co, proj, callback, r_nearest_data),
            i + 1, forward)

find_nearest_dfs_begin(t, node_index, dist_sq, co, proj, callback) ==
  LET node == t.node_array[node_index]
      proj_v3 == <<proj[0], proj[1], proj[2]>>
      nearest == cal_nearest_point_squared(node.bv, proj_v3)
  IN IF distance2(proj_v3, nearest) >= dist_sq THEN [result |-> "None", found |-> NoFound]
     ELSE
       LET nearest_data == find_nearest_dfs(t, node_index, co, proj, callback,
                             [elem_index |-> NoElem, co |-> <<>>, dist |-> dist_sq,
                              status |-> "ok"])
       IN IF nearest_data.status # "ok" THEN [result |-> "panic", found |-> NoFound]
          ELSE IF nearest_data.elem_index # NoElem
          THEN [result |-> "Some",
                found |-> [NoFound EXCEPT !.elem_index = nearest_data.elem_index,
                                          !.co = nearest_data.co,
                                          !.dist = nearest_data.dist]]
          ELSE [result |-> "None", found |-> NoFound]

\* callback = "none": find_nearest_no_callback
find_nearest(t, co, dist_sq, callback) ==
  IF t.totleaf \notin DOMAIN t.nodes THEN [result |-> "panic", found |-> NoFound]
  ELSE IF ~arena_has(t, t.nodes[t.totleaf]) THEN [result |-> "None", found |-> NoFound]
  ELSE find_nearest_dfs_begin(t, t.nodes[t.totleaf], dist_sq, co,
                              find_nearest_proj(t, co), callback)

\* -------------------------------------------------------------- overlap
\* overlap_test reads a bv entry that does not exist before it finds a
\* separating axis
overlap_test_panics(bv1, bv2, start_axis, stop_axis) ==
  \E a \in start_axis..(stop_axis - 1) :
     /\ (2 * a) + 1 \notin DOMAIN bv1 \/ (2 * a) + 1 \notin DOMAIN bv2
     /\ \A b \in start_axis..(a - 1) :
           ~(bv1[2 * b] > bv2[(2 * b) + 1] \/ bv2[2 * b] > bv1[(2 * b) + 1])

\* the predicates given to overlap: "all" accepts every pair, "ordered" the
\* pairs whose first element is below the second, "descending" those whose
\* first element is above the second; "none" is no predicate
overlap_callback(callback, elem_1, elem_2) ==
  IF callback = "ordered" THEN elem_1 < elem_2
  ELSE IF callback = "descending" THEN elem_1 > elem_2
  ELSE TRUE

\* overlap_traverse and overlap_traverse_callback (callback # "none"); acc is
\* the status and the overlap_pairs collected so far
RECURSIVE overlap_traverse(_, _, _, _, _, _, _, _)
RECURSIVE overlap_traverse_children(_, _, _, _, _, _, _, _, _, _)
\* overlap_traverse without the test that the two leaves are the same node
overlap_traverse_no_identity(t, other, node_1_index, node_2_index, start_axis, stop_axis, callback, acc) ==
  IF acc.status # "ok" THEN acc
  ELSE IF ~arena_has(t, node_1_index) \/ ~arena_has(other, node_2_index)
  THEN [acc EXCEPT !.status = "panic"]
  ELSE
    LET node_1 == t.node_array[node_1_index]
        node_2 == other.node_array[node_2_index]
    IN IF overlap_test_panics(node_1.bv, node_2.bv, start_axis, stop_axis)
       THEN [acc EXCEPT !.status = "panic"]
       ELSE IF ~overlap_test(node_1.bv, node_2.bv, start_axis, stop_axis) THEN acc
       ELSE IF node_1.totnode = 0
       THEN IF node_2.totnode = 0
            THEN IF node_1.elem_index = NoElem \/ node_2.elem_index = NoElem
                 THEN [acc EXCEPT !.status = "panic"]
                 ELSE IF overlap_callback(callback, node_1.elem_index, node_2.elem_index)
                 THEN [acc EXCEPT !.pairs =
                         Append(@, <<node_1.elem_index, node_2.elem_index>>)]
                 ELSE acc
            ELSE overlap_traverse_children(t, other, node_1_index, node_2_index,
                   start_axis, stop_axis, callback, acc, 0, FALSE)
       ELSE overlap_traverse_children(t, other, node_1_index, node_2_index,
              start_axis, stop_axis, callback, acc, 0, TRUE)

overlap_traverse(t, other, node_1_index, node_2_index, start_axis, stop_axis, callback, acc) ==
  IF acc.status # "ok" THEN acc
  ELSE IF ~arena_has(t, node_1_index) \/ ~arena_has(other, node_2_index)
  THEN [acc EXCEPT !.status = "panic"]
  ELSE
    LET node_1 == t.node_array[node_1_index]
        node_2 == other.node_array[node_2_index]
    IN IF overlap_test_panics(node_1.bv, node_2.bv, start_axis, stop_axis)
       THEN [acc EXCEPT !.status = "panic"]
       ELSE IF ~overlap_test(node_1.bv, node_2.bv, start_axis, stop_axis) THEN acc
       ELSE IF node_1.totnode = 0
       THEN IF node_2.totnode = 0
            THEN IF node_1_index = node_2_index THEN acc
                 ELSE IF node_1.elem_index = NoElem \/ node_2.elem_index = NoElem
                 THEN [acc EXCEPT !.status = "panic"]
                 ELSE IF overlap_callback(callback, node_1.elem_index, node_2.elem_index)
                 THEN [acc EXCEPT !.pairs =
                         Append(@, <<node_1.elem_index, node_2.elem_index>>)]
                 ELSE acc
            ELSE overlap_traverse_children(t, other, node_1_index, node_2_index,
                   start_axis, stop_axis, callback, acc, 0, FALSE)
       ELSE overlap_traverse_children(t, other, node_1_index, node_2_index,
              start_axis, stop_axis, callback, acc, 0, TRUE)

\* the loop over the children of node_1 (descend_1) or of node_2
overlap_traverse_children(t, other, node_1_index, node_2_index, start_axis, stop_axis, callback, acc, j, descend_1) ==
  LET owner == IF descend_1 THEN t ELSE other
      node == IF descend_1 THEN t.node_array[node_1_index]
              ELSE other.node_array[node_2_index]
  IN IF j >= owner.tree_type \/ acc.status # "ok" THEN acc
     ELSE IF j \notin DOMAIN node.children THEN [acc EXCEPT !.status = "panic"]
     ELSE
       LET child_index == node.children[j]
       IN overlap_traverse_children(t, other, node_1_index, node_2_index,
            start_axis, stop_axis, callback,
            IF ~arena_has(owner, child_index) THEN acc
            ELSE IF descend_1
            THEN overlap_traverse(t, other, child_index, node_2_index,
                                  start_axis, stop_axis, callback, acc)
            ELSE overlap_traverse(t, other, node_1_index, child_index,
                                  start_axis, stop_axis, callback, acc),
            j + 1, descend_1)

\* overlap_thread_num panics when nodes[totleaf] names no node
overlap_thread_num_panics(t) ==
  t.totleaf \notin DOMAIN t.nodes \/ ~arena_has(t, t.nodes[t.totleaf])

\* overlap that returns Some of the list even when the list is empty
overlap_some_empty(t, other, callback) ==
  IF t.totleaf = 0 THEN [result |-> "None", found |-> NoFound]
  ELSE IF overlap_thread_num_panics(t) THEN [result |-> "panic", found |-> NoFound]
  ELSE IF t.axis # other.axis /\ (t.axis = 14 \/ other.axis = 14)
             /\ (t.axis = 18 \/ other.axis = 18)
  THEN [result |-> "panic", found |-> NoFound]
  ELSE IF other.totleaf \notin DOMAIN other.nodes THEN [result |-> "panic", found |-> NoFound]
  ELSE
    LET root_1_index == t.nodes[t.totleaf]
        root_2_index == other.nodes[other.totleaf]
        start_axis == Min2(t.start_axis, other.start_axis)
        stop_axis == Min2(t.stop_axis, other.stop_axis)
    IN IF ~arena_has(other, root_2_index) THEN [result |-> "panic", found |-> NoFound]
       ELSE IF overlap_test_panics(t.node_array[root_1_index].bv,
                                   other.node_array[root_2_index].bv, start_axis, stop_axis)
       THEN [result |-> "panic", found |-> NoFound]
       ELSE IF ~overlap_test(t.node_array[root_1_index].bv,
                             other.node_array[root_2_index].bv, start_axis, stop_axis)
       THEN [result |-> "None", found |-> NoFound]
       ELSE
         LET acc == overlap_traverse(t, other, root_1_index, root_2_index,
                                     start_axis, stop_axis, callback,
                                     [status |-> "ok", pairs |-> <<>>])
         IN IF acc.status # "ok" THEN [result |-> "panic", found |-> NoFound]
            ELSE [result |-> "Some", found |-> [NoFound EXCEPT !.pairs = acc.pairs]]

overlap(t, other, callback) ==
  IF t.totleaf = 0 THEN [result |-> "None", found |-> NoFound]
  ELSE IF overlap_thread_num_panics(t) THEN [result |-> "panic", found |-> NoFound]
  ELSE IF t.axis # other.axis /\ (t.axis = 14 \/ other.axis = 14)
             /\ (t.axis = 18 \/ other.axis = 18)
  THEN [result |-> "panic", found |-> NoFound]
  ELSE IF other.totleaf \notin DOMAIN other.nodes THEN [result |-> "panic", found |-> NoFound]
  ELSE
    LET root_1_index == t.nodes[t.totleaf]
        root_2_index == other.nodes[other.totleaf]
        start_axis == Min2(t.start_axis, other.start_axis)
        stop_axis == Min2(t.stop_axis, other.stop_axis)
    IN IF ~arena_has(other, root_2_index) THEN [result |-> "panic", found |-> NoFound]
       ELSE IF overlap_test_panics(t.node_array[root_1_index].bv,
                                   other.node_array[root_2_index].bv, start_axis, stop_axis)
       THEN [result |-> "panic", found |-> NoFound]
       ELSE IF ~overlap_test(t.node_array[root_1_index].bv,
                             other.node_array[root_2_index].bv, start_axis, stop_axis)
       THEN [result |-> "None", found |-> NoFound]
       ELSE
         LET acc == overlap_traverse(t, other, root_1_index, root_2_index,
                                     start_axis, stop_axis, callback,
                                     [status |-> "ok", pairs |-> <<>>])
         IN IF acc.status # "ok" THEN [result |-> "panic", found |-> NoFound]
            ELSE IF acc.pairs = <<>> THEN [result |-> "None", found |-> NoFound]
            ELSE [result |-> "Some", found |-> [NoFound EXCEPT !.pairs = acc.pairs]]

\* ----------------------------------------------------------- the machine
\* tree      the BVHTree (status: "ok", or how the call in progress ended:
\*           "panic", "hang"; a tree whose call panicked is not used again)
\* max_size  the max_size given to new()
\* inserted  the elements of the insert() calls that returned, in call order
\* balances  how many balance() calls returned on a tree holding a leaf (2: two or more)
\* last_op   the last call made
\* last_index the node_index of the last update_node() call (-1: none yet)
\* result    what the last call returned: "Ok" or an error of update_node,
\*           "None" or "Some" of a query, "panic", "hang"
\* found     what the Some of the last query holds (NoFound otherwise)
\* other     the tree the last overlap() was called with (NoTree otherwise)
\* callback  the callback the last query was called with ("none": without)
\* args      the other arguments of the last call: <<max_size, epsilon,
\*           tree_type, axis, overflow_checks>> of new, <<index, co_many>> of
\*           insert, <<co, dir>> of a ray cast, <<co, dist_sq>> of
\*           find_nearest (<<>> otherwise)
VARIABLES tree, max_size, inserted, balances, last_op, last_index, result, found, other,
          callback, args

vars == <<tree, max_size, inserted, balances, last_op, last_index, result, found, other,
          callback, args>>

SegX == << <<-One, 0, 0>>, <<One, 0, 0>> >>
SegY == << <<0, -One, 0>>, <<0, One, 0>> >>
SegZ == << <<0, 0, -One>>, <<0, 0, One>> >>
Far == << <<3 * One, 2 * One, One>> >>
Ahead == << <<3 * One, 0, 0>> >>

\* the arguments the calls are made with
CoManyArgs == {<<>>, SegX, SegY, Far}
EpsilonArgs == {0, Milli}
TreeTypeArgs == {1, MAX_TREETYPE + 1} \cup (2..MaxTreeType)
AxisArgs == {6, 8, 14, 18, 26, 10}
MaxSizeArgs == {0, 1, MaxSize}
\* the caller tags the k-th leaf with the element ElemBase + k
ElemArgs(t) == {ElemBase + t.totleaf}

InitWith(sizes, epsilons, tree_types, axes) ==
  \E ms \in sizes, eps \in epsilons, tt \in tree_types, ax \in axes,
     overflow_checks \in BOOLEAN :
    /\ tree = BVHTree_new(ms, eps, tt, ax, overflow_checks)
    /\ max_size = ms
    /\ inserted = <<>>
    /\ balances = 0
    /\ last_op = "new"
    /\ last_index = -1
    /\ found = NoFound
    /\ other = NoTree
    /\ callback = "none"
    /\ args = <<ms, eps, tt, ax, overflow_checks>>
    /\ result = IF tree.status = "ok" THEN "Ok" ELSE "panic"

Init == InitWith(MaxSizeArgs, EpsilonArgs, TreeTypeArgs, AxisArgs)

Returned(t) == IF t.status = "ok" THEN "Ok" ELSE t.status

Insert(index, co_many) ==
  /\ tree.status = "ok"
  /\ Len(inserted) < max_size
  /\ tree' = insert(tree, index, co_many)
  /\ inserted' = IF tree'.status = "ok" THEN Append(inserted, index) ELSE inserted
  /\ last_op' = "insert"
  /\ result' = Returned(tree')
  /\ found' = NoFound
  /\ other' = NoTree
  /\ callback' = "none"
  /\ args' = <<index, co_many>>
  /\ UNCHANGED <<max_size, balances, last_index>>

Balance ==
  /\ tree.status = "ok"
  /\ tree' = balance(tree)
  /\ balances' = IF tree'.status = "ok" /\ tree.totleaf >= 1
                 THEN Min2(balances + 1, 2) ELSE balances
  /\ last_op' = "balance"
  /\ result' = Returned(tree')
  /\ found' = NoFound
  /\ other' = NoTree
  /\ callback' = "none"
  /\ args' = <<>>
  /\ UNCHANGED <<max_size, inserted, last_index>>

InsertStep == \E index \in ElemArgs(tree), co_many \in CoManyArgs : Insert(index, co_many)

Next == InsertStep \/ Balance

Spec == Init /\ [][Next]_vars

\* ---- the machine with update_node() and update_tree()
Origin == << <<0, 0, 0>> >>
UpdateCoManyArgs == {Far}
UpdateCoMovingArgs == {<<>>, SegZ, Origin}
UpdateSizeArgs == {0, 2}
UpdateAxisArgs == {6, 14}

UpdateNode(node_index, co_many, co_moving_many) ==
  /\ tree.status = "ok"
  /\ last_op' = "update_node"
  /\ last_index' = node_index
  /\ result' = IF update_node(tree, node_index, co_many, co_moving_many).status = "ok"
               THEN update_node_result(tree, node_index, co_many, co_moving_many)
               ELSE "panic"
  /\ tree' = update_node(tree, node_index, co_many, co_moving_many)
  /\ found' = NoFound
  /\ other' = NoTree
  /\ callback' = "none"
  /\ args' = <<>>
  /\ UNCHANGED <<max_size, inserted, balances>>

UpdateTree ==
  /\ tree.status = "ok"
  /\ tree' = update_tree(tree)
  /\ last_op' = "update_tree"
  /\ result' = Returned(tree')
  /\ found' = NoFound
  /\ other' = NoTree
  /\ callback' = "none"
  /\ args' = <<>>
  /\ UNCHANGED <<max_size, inserted, balances, last_index>>

UpdateNodeStep ==
  \E node_index \in 0..(tree.totleaf + 1), co_many \in UpdateCoManyArgs,
     co_moving_many \in UpdateCoMovingArgs :
    UpdateNode(node_index, co_many, co_moving_many)

InsertSegX == \E index \in ElemArgs(tree) : Insert(index, SegX)

InitUpdate == InitWith(UpdateSizeArgs, {Milli}, 2..MaxTreeType, UpdateAxisArgs)

NextUpdate == InsertSegX \/ Balance \/ UpdateNodeStep \/ UpdateTree

SpecUpdate == InitUpdate /\ [][NextUpdate]_vars

\* ---- the machine with the queries
RayCoArgs == {<<-3 * One, 0, 0>>, <<0, 0, 3 * One>>}
RayDirArgs == {<<One, 0, 0>>, <<-One, 0, 0>>, <<0, 0, -One>>}
RayCallbackArgs == {"none", "miss", "by_elem"}
NearestCoArgs == {<<0, 0, 0>>, <<3 * One, 3 * One, 0>>}
DistSqArgs == {0, One * One, 100 * One * One}
NearestCallbackArgs == {"none", "never"}
OverlapCallbackArgs == {"none", "all", "ordered", "descending"}
QuerySizeArgs == {0, 3}
QueryAxisArgs == {6, 14}
OtherElemBase == 2 * ElemBase

\* a second tree: new(), the inserts of leaves (a sequence of point lists),
\* then balance() when balanced
RECURSIVE insert_many(_, _, _)
insert_many(t, leaves, k) ==
  IF k > Len(leaves) \/ t.status # "ok" THEN t
  ELSE insert_many(insert(t, OtherElemBase + k - 1, leaves[k]), leaves, k + 1)

tree_of(epsilon, tree_type, axis, leaves, balanced) ==
  LET t == insert_many(BVHTree_new(Len(leaves), epsilon, tree_type, axis, FALSE), leaves, 1)
  IN IF balanced /\ t.status = "ok" THEN balance(t) ELSE t

\* the trees overlap is called with: the tree itself, an empty tree, a tree
\* with leaves not yet balanced, balanced trees
OtherArgs(t) ==
  {t,
   tree_of(t.epsilon, t.tree_type, t.axis, <<>>, FALSE),
   tree_of(t.epsilon, t.tree_type, t.axis, <<SegX>>, FALSE),
   tree_of(t.epsilon, t.tree_type, t.axis, <<SegY, SegX>>, TRUE),
   tree_of(t.epsilon, t.tree_type, 6, <<Far, SegZ, SegX>>, TRUE)}

\* A query takes &self and leaves the tree as it is: what a query returns after
\* another query is what it returns before it, so the machine makes its
\* queries right after a call that builds or modifies the tree.
Query(op, with, cb, a, r) ==
  /\ last_op \in {"new", "insert", "balance", "update_node", "update_tree"}
  /\ last_op' = op
  /\ result' = r.result
  /\ found' = r.found
  /\ other' = with
  /\ callback' = cb
  /\ args' = a
  /\ tree' = IF r.result = "panic" THEN Panic(tree) ELSE tree
  /\ UNCHANGED <<max_size, inserted, balances, last_index>>

RayCast ==
  /\ tree.status = "ok"
  /\ \E co \in RayCoArgs, dir \in RayDirArgs, cb \in RayCallbackArgs :
       Query(IF cb = "none" THEN "ray_cast_no_callback" ELSE "ray_cast", NoTree, cb,
             <<co, dir>>,
             ray_cast_optional_callback(tree, co, dir, cb))

FindNearest ==
  /\ tree.status = "ok"
  /\ \E co \in NearestCoArgs, dist_sq \in DistSqArgs, cb \in NearestCallbackArgs :
       Query(IF cb = "none" THEN "find_nearest_no_callback" ELSE "find_nearest", NoTree, cb,
             <<co, dist_sq>>,
             find_nearest(tree, co, dist_sq, cb))

Overlap ==
  /\ tree.status = "ok"
  /\ \E with \in OtherArgs(tree), cb \in OverlapCallbackArgs :
       Query(IF with = tree THEN "overlap_self"
             ELSE IF with.totleaf = 0 THEN "overlap_empty"
             ELSE IF with.totbranch = 0 /\ ~arena_has(with, with.nodes[with.totleaf])
             THEN "overlap_unbalanced"
             ELSE "overlap",
             with, cb, <<>>, overlap(tree, with, cb))

InitQuery == InitWith(QuerySizeArgs, {Milli}, 2..MaxTreeType, QueryAxisArgs)

\* the caller numbers the elements from 0, as the tests of the module do, or
\* from ElemBase
InsertPlain ==
  /\ \A i \in 1..Len(inserted) : inserted[i] = i - 1
  /\ \E co_many \in {SegX, SegY} : Insert(tree.totleaf, co_many)

InsertTagged ==
  /\ \A i \in 1..Len(inserted) : inserted[i] = ElemBase + i - 1
  /\ \E index \in ElemArgs(tree), co_many \in {SegX, SegY, Far, Ahead} : Insert(index, co_many)

NextQuery == InsertTagged \/ InsertPlain \/ Balance \/ RayCast \/ FindNearest \/ Overlap

SpecQuery == InitQuery /\ [][NextQuery]_vars

\* ------------------------------------------------------------ properties
\* the root handle the queries start from
RootIndex(t) == t.nodes[t.totleaf]

\* the child links a node holds (the slots that are not the unknown sentinel)
ChildrenOf(t, n) ==
  {t.node_array[n].children[k] : k \in DOMAIN t.node_array[n].children} \ {Unknown}

RECURSIVE ReachFrom(_, _, _)
ReachFrom(t, frontier, seen) ==
  IF frontier = {} THEN seen
  ELSE ReachFrom(t,
                 (UNION {ChildrenOf(t, n) : n \in frontier}) \ (seen \cup frontier),
                 seen \cup frontier)

\* the nodes reachable from the root through children links, the root included
Reachable(t) ==
  IF t.totleaf \in DOMAIN t.nodes /\ arena_has(t, RootIndex(t))
  THEN ReachFrom(t, {RootIndex(t)}, {})
  ELSE {}

\* the arena positions of the inserted leaves
LeafPositions(t) == 0..(t.totleaf - 1)

ActiveAxes(t) == t.start_axis..(t.stop_axis - 1)

bv_contains(t, outer, inner) ==
  \A a \in ActiveAxes(t) :
     /\ outer[2 * a] <= inner[2 * a]
     /\ outer[(2 * a) + 1] >= inner[(2 * a) + 1]

\* balance() has just returned on a tree that holds a leaf
AfterBalance == tree.status = "ok" /\ last_op = "balance" /\ tree.totleaf >= 1

\* C1: after balance() on a tree with at least one leaf, every internal node
\* reachable from the root contains, on every active axis, the interval of each
\* of its children.
C1_InternalContainsChildren ==
  AfterBalance =>
    \A n \in Reachable(tree) :
       tree.node_array[n].totnode > 0 =>
         \A c \in ChildrenOf(tree, n) :
            bv_contains(tree, tree.node_array[n].bv, tree.node_array[c].bv)

\* C2 as stated: after any number of insert() calls followed by balance(),
\* totleaf is the number of insert() calls and totbranch is
\* implicit_needed_branches(tree_type, totleaf).
C2_Original ==
  (tree.status = "ok" /\ last_op = "balance") =>
    /\ tree.totleaf = Len(inserted)
    /\ tree.totbranch = implicit_needed_branches(tree.tree_type, tree.totleaf)

\* C2 amended: totleaf is the number of insert() calls; totbranch is
\* implicit_needed_branches(tree_type, totleaf) when at least one leaf was
\* inserted or tree_type >= 3, and 0 when no leaf was inserted.
C2_LeafCountConservation ==
  (tree.status = "ok" /\ last_op = "balance") =>
    /\ tree.totleaf = Len(inserted)
    /\ (tree.totleaf >= 1 \/ tree.tree_type >= 3) =>
          tree.totbranch = implicit_needed_branches(tree.tree_type, tree.totleaf)
    /\ tree.totleaf = 0 => tree.totbranch = 0

C2_Witness ==
  /\ AfterBalance
  /\ Len(inserted) = 3
  /\ tree.totbranch = 2

\* C3: after balance() on a tree with at least one leaf, nodes[totleaf] is the
\* root: an internal node without parent from which every inserted leaf is
\* reachable through children links.
C3_RootAtTotleaf ==
  AfterBalance =>
    /\ arena_has(tree, RootIndex(tree))
    /\ tree.node_array[RootIndex(tree)].totnode > 0
    /\ tree.node_array[RootIndex(tree)].parent = NoParent
    /\ RootIndex(tree) \notin LeafPositions(tree)
    /\ \A i \in LeafPositions(tree) :
          /\ i \in Reachable(tree)
          /\ tree.node_array[i].elem_index = inserted[i + 1]

C3_Witness ==
  /\ AfterBalance
  /\ tree.totleaf = 3
  /\ tree.tree_type = 2
  /\ tree.node_array[RootIndex(tree)].totnode = 2

\* C4: in every state reached by new, insert and balance, every inserted leaf
\* has totnode = 0 and elem_index set, and every other node reachable from the
\* root has totnode > 0 and elem_index unset.
C4_LeafIffTotnodeZero ==
  tree.status = "ok" =>
    /\ \A i \in LeafPositions(tree) :
          /\ tree.node_array[i].totnode = 0
          /\ tree.node_array[i].elem_index # NoElem
    /\ \A n \in Reachable(tree) \ LeafPositions(tree) :
          /\ tree.node_array[n].totnode > 0
          /\ tree.node_array[n].elem_index = NoElem

\* C5: a tree with exactly one inserted leaf has, after balance(), totbranch = 1
\* and a root whose single child is that leaf.
C5_SingleLeaf ==
  (AfterBalance /\ tree.totleaf = 1) =>
    /\ tree.totbranch = 1
    /\ arena_has(tree, RootIndex(tree))
    /\ tree.node_array[RootIndex(tree)].totnode = 1
    /\ ChildrenOf(tree, RootIndex(tree)) = {0}

\* C6: once balance() has returned on a tree that holds a leaf, every later
\* insert() panics and adds no leaf.
C6_InsertAfterBalancePanics ==
  (last_op = "insert" /\ balances >= 1) =>
    /\ tree.status = "panic"
    /\ tree.totleaf = Len(inserted)

\* C7: a second balance() on a tree that holds a leaf panics: no second call
\* returns.
C7_SecondBalancePanics == balances < 2

\* C8: update_node with node_index >= totleaf returns IndexOutOfRange and
\* modifies no node.
C8_IndexOutOfRange ==
  [][\A node_index \in 0..(tree.totleaf + 1), co_many \in UpdateCoManyArgs,
        co_moving_many \in UpdateCoMovingArgs :
       (UpdateNode(node_index, co_many, co_moving_many) /\ node_index >= tree.totleaf) =>
          /\ result' = "IndexOutOfRange"
          /\ tree'.node_array = tree.node_array]_vars

\* C9: update_node with a valid leaf index returns DifferentNumPoints, and
\* leaves every bounding volume unchanged, when co_moving_many is non-empty and
\* its length differs from co_many's; it returns Ok when co_moving_many is
\* empty or of equal length.
C9_DifferentNumPoints ==
  [][\A node_index \in 0..(tree.totleaf + 1), co_many \in UpdateCoManyArgs,
        co_moving_many \in UpdateCoMovingArgs :
       (UpdateNode(node_index, co_many, co_moving_many) /\ node_index < tree.totleaf) =>
          IF co_moving_many # <<>> /\ Len(co_moving_many) # Len(co_many)
          THEN /\ result' = "DifferentNumPoints"
               /\ \A n \in DOMAIN tree.node_array :
                     tree'.node_array[n].bv = tree.node_array[n].bv
          ELSE result' = "Ok"]_vars

C9_Witness ==
  /\ last_op = "update_node"
  /\ last_index >= 0
  /\ last_index < tree.totleaf
  /\ result = "DifferentNumPoints"
  /\ balances = 1

\* C10: ray_cast, ray_cast_no_callback, find_nearest, find_nearest_no_callback
\* and overlap never panic, whatever the lifecycle state of the trees (empty,
\* leaves inserted but not balanced, balanced); they return None or Some.
C10_QueriesNeverPanic ==
  last_op \in {"ray_cast", "ray_cast_no_callback", "find_nearest",
               "find_nearest_no_callback", "overlap", "overlap_self",
               "overlap_empty", "overlap_unbalanced"}
    => result \in {"None", "Some"}

\* nodes[totleaf] names the root: balance() has returned on the leaves of t
Balanced(t) ==
  /\ t.status = "ok"
  /\ t.totleaf >= 1
  /\ t.totleaf \in DOMAIN t.nodes
  /\ arena_has(t, RootIndex(t))

PairSet(pairs) == {pairs[i] : i \in DOMAIN pairs}

\* the element pairs of the leaves of a and b whose bounding volumes overlap on
\* every active axis
LeafPairs(a, b) ==
  {<<a.node_array[i].elem_index, b.node_array[j].elem_index>> :
     <<i, j>> \in {p \in LeafPositions(a) \X LeafPositions(b) :
                    overlap_test(a.node_array[p[1]].bv, b.node_array[p[2]].bv,
                                 a.start_axis, a.stop_axis)}}

\* C11: for two distinct balanced trees with the same axis configuration,
\* overlap without predicate returns exactly the element pairs of the leaves
\* whose bounding volumes overlap on every active axis.
C11_OverlapExact ==
  (/\ last_op = "overlap"
   /\ callback = "none"
   /\ Balanced(tree)
   /\ Balanced(other)
   /\ other.axis = tree.axis)
    => PairSet(found.pairs) = LeafPairs(tree, other)

\* C12: overlap of a balanced tree of at least 2 leaves with itself, without
\* predicate, reports no pair whose two entries are the same leaf.
C12_NoSelfPair ==
  (/\ last_op = "overlap_self"
   /\ callback = "none"
   /\ Balanced(tree)
   /\ tree.totleaf >= 2)
    => \A k \in DOMAIN found.pairs : found.pairs[k][1] # found.pairs[k][2]

C12_Witness ==
  /\ last_op = "overlap_self"
  /\ callback = "none"
  /\ Balanced(tree)
  /\ tree.totleaf >= 2
  /\ result = "Some"
  /\ Len(found.pairs) >= 2

\* the unordered element pairs of a list of overlap pairs
Unordered(pairs) == {{p[1], p[2]} : p \in PairSet(pairs)}

BvOf(seq) == [k \in 0..(Len(seq) - 1) |-> seq[k + 1]]

ExampleTree ==
  /\ Balanced(tree)
  /\ balances = 1
  /\ tree.tree_type = 3
  /\ tree.axis = 6
  /\ tree.epsilon = Milli
  /\ inserted = <<0, 1>>
  /\ tree.node_array[0].bv = BvOf(<<-One - Milli, One + Milli, -Milli, Milli, -Milli, Milli>>)
  /\ tree.node_array[1].bv = BvOf(<<-Milli, Milli, -One - Milli, One + Milli, -Milli, Milli>>)

ExampleRootBv ==
  tree.node_array[RootIndex(tree)].bv =
    BvOf(<<-One - Milli, One + Milli, -One - Milli, One + Milli, -Milli, Milli>>)

\* C14 as stated: in the worked example the root's bv is
\* [-1.001, 1.001, -1.001, 1.001, -0.001, 0.001] and overlap of the tree with
\* itself reports exactly one pair, the pair of the elements 0 and 1.
C14_Original ==
  (ExampleTree /\ last_op = "overlap_self" /\ callback = "none") =>
    /\ ExampleRootBv
    /\ result = "Some"
    /\ Len(found.pairs) = 1
    /\ Unordered(found.pairs) = {{0, 1}}

\* C14 amended: the root's bv is as stated, and overlap of the tree with itself
\* reports the unordered pair {0, 1} in both orders: the list (0, 1), (1, 0).
C14_WorkedExample ==
  (ExampleTree /\ last_op = "overlap_self" /\ callback = "none") =>
    /\ ExampleRootBv
    /\ result = "Some"
    /\ found.pairs = << <<0, 1>>, <<1, 0>> >>

C14_Witness ==
  /\ ExampleTree
  /\ last_op = "overlap_self"
  /\ callback = "none"
  /\ result = "Some"

\* C15: on a balanced tree with start_axis 0, find_nearest_no_callback(co,
\* dist_sq) returns a leaf attaining the smallest squared distance of the
\* brute-force scan, with that distance, when that distance is below dist_sq,
\* and returns None when dist_sq is smaller than that distance.
C15_NearestIsBruteForce ==
  (last_op = "find_nearest_no_callback" /\ Balanced(tree) /\ tree.start_axis = 0) =>
    LET co == args[1]
        dist_sq == args[2]
        proj == find_nearest_proj(tree, co)
        proj_v3 == <<proj[0], proj[1], proj[2]>>
        \* the leaf case of find_nearest_dfs for the leaf at position i
        LeafDistSq(i) ==
          distance2(proj_v3, cal_nearest_point_squared(tree.node_array[i].bv, proj_v3))
        \* the brute-force scan over all leaves
        smallest == CHOOSE d \in {LeafDistSq(i) : i \in LeafPositions(tree)} :
                      \A i \in LeafPositions(tree) : d <= LeafDistSq(i)
    IN /\ smallest < dist_sq =>
            /\ result = "Some"
            /\ found.dist = smallest
            /\ \E i \in LeafPositions(tree) :
                 /\ tree.node_array[i].elem_index = found.elem_index
                 /\ LeafDistSq(i) = smallest
       /\ dist_sq < smallest => result = "None"

\* the leaves whose box the ray pierces: ray_hit without a best hit so far
Pierced(t, co, dir) ==
  {i \in LeafPositions(t) : ray_hit(t.node_array[i].bv, co, dir, TMax).hit}

Disjoint(t) ==
  \A i, j \in LeafPositions(t) :
    i # j => ~overlap_test(t.node_array[i].bv, t.node_array[j].bv, t.start_axis, t.stop_axis)

\* C16: on a balanced tree of disjoint boxes ray_cast with a callback that
\* returns a hit for each element returns the hit with the smallest dist among
\* the callback results of the pierced boxes, and None when no box is pierced
\* or every callback returns None.
C16_RayCastSmallest ==
  (last_op = "ray_cast" /\ Balanced(tree) /\ Disjoint(tree)) =>
    LET pierced == Pierced(tree, args[1], args[2])
        CallbackDist(i) == ray_callback(callback, tree.node_array[i].elem_index, <<>>).dist
    IN IF pierced = {} \/ callback = "miss" THEN result = "None"
       ELSE /\ result = "Some"
            /\ \E i \in pierced :
                 /\ tree.node_array[i].elem_index = found.elem_index
                 /\ CallbackDist(i) = found.dist
                 /\ \A j \in pierced : found.dist <= CallbackDist(j)

\* C17: on a balanced tree with at least one leaf, after update_node calls and
\* one update_tree(), every internal node reachable from the root has, on every
\* active axis, the union of its children's current bvs as its bv.
C17_UpdateTreeRefits ==
  (last_op = "update_tree" /\ Balanced(tree)) =>
    \A n \in Reachable(tree) :
       tree.node_array[n].totnode > 0 =>
         /\ \A c \in ChildrenOf(tree, n) :
              bv_contains(tree, tree.node_array[n].bv, tree.node_array[c].bv)
         /\ \A k \in {k \in DOMAIN tree.node_array[n].bv :
                        is_active(k, tree.start_axis, tree.stop_axis)} :
              \E c \in ChildrenOf(tree, n) :
                 tree.node_array[n].bv[k] = tree.node_array[c].bv[k]

\* C18: the leaf an insert() stored has, on every active axis, the smallest
\* interval containing the projections of the input points, widened by the
\* tree's epsilon on each side: min - epsilon and max + epsilon.
C18_LeafHullInflated ==
  (last_op = "insert" /\ tree.status = "ok" /\ args[2] # <<>>) =>
    LET co_many == args[2]
        leaf == tree.node_array[tree.totleaf - 1]
        projections(a) == {dot(co_many[i], bvhtree_kdop_axes[a + 1]) : i \in DOMAIN co_many}
    IN \A a \in ActiveAxes(tree) :
         /\ \A p \in projections(a) : leaf.bv[2 * a] + tree.epsilon <= p
         /\ \E p \in projections(a) : leaf.bv[2 * a] + tree.epsilon = p
         /\ \A p \in projections(a) : leaf.bv[(2 * a) + 1] - tree.epsilon >= p
         /\ \E p \in projections(a) : leaf.bv[(2 * a) + 1] - tree.epsilon = p

\* two points, on a tree with oblique axes
C18_Witness ==
  /\ last_op = "insert"
  /\ tree.status = "ok"
  /\ Len(args[2]) = 2
  /\ tree.stop_axis > 3
  /\ tree.totleaf >= 2

\* C19: for each accepted axis configuration, insert() of a non-empty point
\* list on a freshly created tree returns without panic and the leaf's bv
\* holds a (min, max) pair for every active axis.
C19_FirstInsertSucceeds ==
  (last_op = "insert" /\ balances = 0 /\ tree.totleaf = 1 /\ args[2] # <<>>) =>
    /\ tree.status = "ok"
    /\ \A a \in ActiveAxes(tree) :
         {2 * a, (2 * a) + 1} \subseteq DOMAIN tree.node_array[0].bv

\* C20: new panics when tree_type is outside [2, 32] or axis is not one of 6,
\* 8, 14, 18, 26; for accepted values it returns an empty tree (totleaf = 0,
\* totbranch = 0) with (start_axis, stop_axis) = (0,13) for 26, (7,13) for 18,
\* (0,7) for 14, (0,4) for 8 and (0,3) for 6.
C20_NewValidates ==
  last_op = "new" =>
    LET tree_type == args[3]
        axis == args[4]
        accepted == tree_type \in 2..32 /\ axis \in {6, 8, 14, 18, 26}
    IN /\ ~accepted => tree.status = "panic"
       /\ accepted =>
            /\ tree.status = "ok"
            /\ tree.totleaf = 0
            /\ tree.totbranch = 0
            /\ <<axis, tree.start_axis, tree.stop_axis>> \in
                 {<<26, 0, 13>>, <<18, 7, 13>>, <<14, 0, 7>>, <<8, 0, 4>>, <<6, 0, 3>>}

\* C21: for accepted tree_type and axis, new() returns a tree whose nodes list
\* and node arena both hold max_size + implicit_needed_branches(tree_type,
\* max_size) + tree_type entries, computed without underflow or overflow, and
\* both sizes stay equal and unchanged under insert() and balance().
C21_ArenaSize ==
  LET tt == IF last_op = "new" THEN args[3] ELSE tree.tree_type
      numnodes == max_size + (Max2(1, max_size + tt - 3) \div (tt - 1)) + tt
  IN /\ (last_op = "new" /\ args[3] \in 2..32 /\ args[4] \in {6, 8, 14, 18, 26}) =>
          tree.status = "ok"
     /\ tree.status = "ok" =>
          /\ Cardinality(DOMAIN tree.nodes) = numnodes
          /\ Cardinality(DOMAIN tree.node_array) = numnodes

\* C22: for n >= 1 leaves, implicit_needed_branches(tree_type, n) is at least 1
\* and is the number of internal nodes (totnode > 0, reachable from the root)
\* that balance() builds over the n leaves.
C22_BranchCount ==
  AfterBalance =>
    /\ implicit_needed_branches(tree.tree_type, tree.totleaf) >= 1
    /\ implicit_needed_branches(tree.tree_type, tree.totleaf) =
         Cardinality({n \in Reachable(tree) : tree.node_array[n].totnode > 0})

\* the leaves in the subtree of node n
RECURSIVE LeavesUnder(_, _)
LeavesUnder(t, n) ==
  IF n \in LeafPositions(t) THEN {n}
  ELSE UNION {LeavesUnder(t, c) : c \in ChildrenOf(t, n)}

\* the leaves of the children of node n are in the order of the bv entry at
\* index 2 * main_axis + offset: offset 0 is the minimum, offset 1 the maximum
SplitBy(n, offset) ==
  LET node == tree.node_array[n]
      entry == (2 * node.main_axis) + offset
  IN \A k1, k2 \in 0..(node.totnode - 1) :
       k1 < k2 =>
         \A l1 \in LeavesUnder(tree, node.children[k1]),
            l2 \in LeavesUnder(tree, node.children[k2]) :
           tree.node_array[l1].bv[entry] <= tree.node_array[l2].bv[entry]

\* the main axis of the root is the one of x, y, z on which its bv is widest
RootAxisIsLargest ==
  LET root == tree.node_array[RootIndex(tree)]
  IN \A a \in 0..2 :
       root.bv[(2 * root.main_axis) + 1] - root.bv[2 * root.main_axis] >=
         root.bv[(2 * a) + 1] - root.bv[2 * a]

\* C23 as stated: balance() divides the leaves of a branch among its children
\* by the minimum of each leaf's bv along the split axis, the axis of greatest
\* extent among x, y, z.
C23_Original == (AfterBalance /\ Balanced(tree)) => (RootAxisIsLargest /\ SplitBy(RootIndex(tree), 0))

\* C23 amended: balance() divides the leaves of a branch among its children by
\* the maximum of each leaf's bv along the split axis, the axis of greatest
\* extent among x, y, z.
C23_SplitByMaximum == (AfterBalance /\ Balanced(tree)) => (RootAxisIsLargest /\ SplitBy(RootIndex(tree), 1))

\* the root has two children whose leaves are not in the order of the minima
C23_Witness ==
  /\ AfterBalance
  /\ Balanced(tree)
  /\ tree.node_array[RootIndex(tree)].totnode >= 2
  /\ ~SplitBy(RootIndex(tree), 0)

\* C24: after balance(), for every internal node and its children at slots
\* k < k', every leaf under child k has a split key (the bv entry the branch was
\* partitioned on) less than or equal to that of every leaf under child k',
\* also for leaf ranges of more than 3 elements.
C24_ChildrenPartitioned ==
  (AfterBalance /\ Balanced(tree)) =>
    \A n \in Reachable(tree) \ LeafPositions(tree) : SplitBy(n, 1)

\* four leaves with four different keys, inserted out of order
C24_Witness ==
  /\ AfterBalance
  /\ Balanced(tree)
  /\ tree.totleaf = 4
  /\ LET entry == (2 * tree.node_array[RootIndex(tree)].main_axis) + 1
     IN /\ Cardinality({tree.node_array[l].bv[entry] : l \in LeafPositions(tree)}) = 4
        /\ \E l \in 0..2 : tree.node_array[l].bv[entry] > tree.node_array[l + 1].bv[entry]

\* C25: after balance() the bv of each internal node is, on every active axis,
\* exactly the union of the bvs of the leaves in its subtree (the least
\* minimum, the greatest maximum, no further inflation), the root's is the
\* union of all inserted leaves, and balance() changes no leaf's bv.
C25_HullOfSubtree ==
  /\ [](AfterBalance /\ Balanced(tree) =>
          /\ LeavesUnder(tree, RootIndex(tree)) = LeafPositions(tree)
          /\ \A n \in Reachable(tree) \ LeafPositions(tree) :
               \A k \in {k \in DOMAIN tree.node_array[n].bv :
                           is_active(k, tree.start_axis, tree.stop_axis)} :
                 /\ \E l \in LeavesUnder(tree, n) :
                      tree.node_array[n].bv[k] = tree.node_array[l].bv[k]
                 /\ \A l \in LeavesUnder(tree, n) :
                      IF k % 2 = 0
                      THEN tree.node_array[n].bv[k] <= tree.node_array[l].bv[k]
                      ELSE tree.node_array[n].bv[k] >= tree.node_array[l].bv[k])
  /\ [][(last_op' = "balance" /\ tree'.status = "ok") =>
          \A l \in LeafPositions(tree) : tree'.node_array[l].bv = tree.node_array[l].bv]_vars

\* three leaves in a binary tree: a branch below the root
C25_Witness ==
  /\ AfterBalance
  /\ Balanced(tree)
  /\ tree.totleaf >= 3
  /\ \E n \in Reachable(tree) \ LeafPositions(tree) :
       /\ n # RootIndex(tree)
       /\ Cardinality(LeavesUnder(tree, n)) >= 2

\* C26: before and after balance(), update_node(i, ...) with i < totleaf that
\* returns Ok rewrites the bv of the leaf whose element was passed to the
\* (i+1)-th insert(), so that it holds the points of co_many, and changes no
\* other node's bv, no node's elem_index, children, parent, totnode or
\* main_axis, and nothing else of the tree.
C26_LeafPositionPermanent ==
  [][\A node_index \in 0..(tree.totleaf + 1), co_many \in UpdateCoManyArgs,
        co_moving_many \in UpdateCoMovingArgs :
       (/\ UpdateNode(node_index, co_many, co_moving_many)
        /\ node_index < tree.totleaf
        /\ result' = "Ok") =>
          /\ tree'.node_array[node_index].elem_index = inserted[node_index + 1]
          /\ tree' = [tree EXCEPT !.node_array[node_index].bv =
                                    tree'.node_array[node_index].bv]
          /\ \A i \in DOMAIN co_many, a \in ActiveAxes(tree) :
               LET p == dot(co_many[i], bvhtree_kdop_axes[a + 1])
               IN /\ tree'.node_array[node_index].bv[2 * a] <= p
                  /\ tree'.node_array[node_index].bv[(2 * a) + 1] >= p]_vars

\* an update of a leaf that balance() has moved in the nodes list
C26_Witness ==
  /\ last_op = "update_node"
  /\ result = "Ok"
  /\ tree.status = "ok"
  /\ balances >= 1
  /\ last_index >= 0
  /\ last_index < tree.totleaf
  /\ tree.nodes[last_index] # last_index

\* C27: insert() with a zero-length point list yields a leaf whose stored
\* interval is valid and non-empty, min <= max, on every active axis after the
\* epsilon inflation.
C27_EmptyInsertValid ==
  (last_op = "insert" /\ tree.status = "ok" /\ args[2] = <<>>) =>
    \A a \in ActiveAxes(tree) :
       tree.node_array[tree.totleaf - 1].bv[2 * a] <=
         tree.node_array[tree.totleaf - 1].bv[(2 * a) + 1]

\* C28: after balance() on n >= 1 leaves each inserted leaf occurs exactly once
\* as a child of an internal node reachable from the root, every internal node
\* has between 1 and tree_type children, in the slots 0..totnode with the
\* unknown sentinel in the other slots, and the parent link of each child names
\* the node that lists it.
C28_TreeShape ==
  (AfterBalance /\ Balanced(tree)) =>
    LET internal == {n \in Reachable(tree) : tree.node_array[n].totnode > 0}
        slots == 0..(tree.tree_type - 1)
    IN /\ \A l \in LeafPositions(tree) :
            Cardinality({p \in internal \X slots :
                           tree.node_array[p[1]].children[p[2]] = l}) = 1
       /\ \A n \in internal :
            /\ tree.node_array[n].totnode \in 1..tree.tree_type
            /\ \A k \in slots :
                 IF k < tree.node_array[n].totnode
                 THEN /\ arena_has(tree, tree.node_array[n].children[k])
                      /\ tree.node_array[tree.node_array[n].children[k]].parent = n
                 ELSE tree.node_array[n].children[k] = Unknown

\* C29: balance() on 1 to max_size inserted leaves terminates and completes
\* without panic, for every tree_type and every arrangement of the leaf keys,
\* equal keys included: a pass of the loop in partition_nth_element over the
\* leaves cuts strictly inside the range, so either new range is strictly
\* smaller, and the two indices of bvh_partition stay inside [lo, hi).
C29_BalanceCompletes ==
  [][(tree.status = "ok" /\ tree.totleaf >= 1 /\ tree.totbranch = 0
        /\ last_op' = "balance") =>
       /\ tree'.status = "ok"
       /\ tree.totleaf > 3 =>
            \A axis \in {1, 3, 5} :
               LET lo == 0
                   hi == tree.totleaf
                   node_x_index == bvh_median_of_3(tree, lo, (lo + hi) \div 2, hi - 1, axis)
                   x == tree.node_array[node_x_index].bv[axis]
                   p == bvh_partition(tree, lo, hi, node_x_index, axis)
               IN /\ arena_has(tree, node_x_index)
                  /\ bvh_partition_up(tree, lo, x, axis) \in lo..(hi - 1)
                  /\ bvh_partition_down(tree, hi, x, axis) \in lo..(hi - 1)
                  /\ p.t.status = "ok"
                  /\ lo < p.cut
                  /\ p.cut < hi]_vars

\* a completed balance of four leaves with two equal keys on the root's split
\* axis, where the loop of partition_nth_element runs
C29_Witness ==
  /\ AfterBalance
  /\ balances = 1
  /\ tree.totleaf = 4
  /\ tree.tree_type = 2
  /\ \E i, j \in LeafPositions(tree) :
       /\ i # j
       /\ tree.node_array[i].bv[(2 * tree.node_array[RootIndex(tree)].main_axis) + 1]
            = tree.node_array[j].bv[(2 * tree.node_array[RootIndex(tree)].main_axis) + 1]

\* C30: for two balanced trees and a predicate p, overlap(other, Some(p))
\* returns exactly the pairs of overlap(other, None) for which p returns true,
\* in the same order, and None when no pair remains; p is called only on pairs
\* of leaves whose bounding volumes overlap, and the result is never Some of an
\* empty list.
C30_PredicateFilters ==
  (/\ last_op \in {"overlap", "overlap_self"}
   /\ callback # "none"
   /\ Balanced(tree)
   /\ Balanced(other))
    => LET unfiltered == overlap(tree, other, "none")
           kept == SelectSeq(unfiltered.found.pairs,
                             LAMBDA p : overlap_callback(callback, p[1], p[2]))
       IN /\ result = unfiltered.result \/ (result = "None" /\ unfiltered.result = "Some")
          /\ result = "Some" => (found.pairs = kept /\ found.pairs # <<>>)
          /\ result = "None" => (kept = <<>> /\ found = NoFound)
          /\ callback = "all" =>
               \A i \in DOMAIN found.pairs :
                  \E l1 \in LeafPositions(tree), l2 \in LeafPositions(other) :
                     /\ found.pairs[i] = <<tree.node_array[l1].elem_index,
                                           other.node_array[l2].elem_index>>
                     /\ overlap_test(tree.node_array[l1].bv, other.node_array[l2].bv,
                                     Min2(tree.start_axis, other.start_axis),
                                     Min2(tree.stop_axis, other.stop_axis))

\* the predicate rejects some of the pairs of the overlap and accepts others
C30_Witness ==
  /\ last_op \in {"overlap", "overlap_self"}
  /\ callback = "ordered"
  /\ Balanced(tree)
  /\ Balanced(other)
  /\ result = "Some"
  /\ Len(found.pairs) >= 1
  /\ Len(found.pairs) < Len(overlap(tree, other, "none").found.pairs)

====
